---- MODULE Spec2Model ----
(***************************************************************************)
(* Wind particle layers of hrrr-weather-viz: the zoom-adaptive policy,     *)
(* the particle population (initParticles / updateParticles) and the       *)
(* requestAnimationFrame loop of the React components                      *)
(*   SkiaWindParticles      (src/rn-components/SkiaWindParticles.tsx)      *)
(*   DeckWindParticleLayer  (src/unnamed/part_007, lines 304-716)          *)
(*                                                                         *)
(* Numbers are fixed point.  Zoom is counted in 1/ZoomDen levels, a speed  *)
(* factor in 1/SpeedScale, a wind component in 1/VelScale m/s, a pixel     *)
(* position in 1/PX pixel, and Math.random() draws k/RandDen, k < RandDen. *)
(***************************************************************************)
EXTENDS Integers, Sequences, FiniteSets, TLC

\* ------------------------------------------------------------------ units
ZoomDen == 2
SpeedScale == 10000
VelScale == 100
PX == 600
RandDen == 2

\* The zoom levels the policy is evaluated on: 0 .. MaxZoom in 1/ZoomDen steps.
MaxZoom == 14
ZoomGrid == 0..(MaxZoom * ZoomDen)

\* Math.floor(base * num/den) for base >= 0
FloorMul(base, num, den) == (base * num) \div den

Max(a, b) == IF a >= b THEN a ELSE b
Min(a, b) == IF a <= b THEN a ELSE b

\* ------------------------------------------------- zoom-adaptive policy
\* getParticleCount with the 8% and 4% rows exchanged
getParticleCountSwapped(zoom, baseCount) ==
  IF zoom < 4 * ZoomDen THEN baseCount
  ELSE IF zoom < 6 * ZoomDen THEN FloorMul(baseCount, 50, 100)
  ELSE IF zoom < 8 * ZoomDen THEN FloorMul(baseCount, 20, 100)
  ELSE IF zoom < 10 * ZoomDen THEN FloorMul(baseCount, 4, 100)
  ELSE IF zoom < 12 * ZoomDen THEN FloorMul(baseCount, 8, 100)
  ELSE FloorMul(baseCount, 25, 1000)

\* getParticleCount(zoom, baseCount), identical in both components
getParticleCount(zoom, baseCount) ==
  IF zoom < 4 * ZoomDen THEN baseCount
  ELSE IF zoom < 6 * ZoomDen THEN FloorMul(baseCount, 50, 100)
  ELSE IF zoom < 8 * ZoomDen THEN FloorMul(baseCount, 20, 100)
  ELSE IF zoom < 10 * ZoomDen THEN FloorMul(baseCount, 8, 100)
  ELSE IF zoom < 12 * ZoomDen THEN FloorMul(baseCount, 4, 100)
  ELSE FloorMul(baseCount, 25, 1000)

\* getSpeedFactor(zoom) of SkiaWindParticles: literal factors, in 1/SpeedScale
SkiaSpeedBase == 800
getSpeedFactorSkia(zoom) ==
  IF zoom < 4 * ZoomDen THEN SkiaSpeedBase
  ELSE IF zoom < 6 * ZoomDen THEN 600
  ELSE IF zoom < 8 * ZoomDen THEN 300
  ELSE IF zoom < 10 * ZoomDen THEN 150
  ELSE IF zoom < 12 * ZoomDen THEN 60
  ELSE 20

\* getSpeedFactor of DeckWindParticleLayer with <= in place of < at each threshold
getSpeedFactorDeckClosed(zoom, speedFactor) ==
  IF zoom <= 4 * ZoomDen THEN speedFactor
  ELSE IF zoom <= 6 * ZoomDen THEN (speedFactor * 70) \div 100
  ELSE IF zoom <= 8 * ZoomDen THEN (speedFactor * 40) \div 100
  ELSE IF zoom <= 10 * ZoomDen THEN (speedFactor * 15) \div 100
  ELSE IF zoom <= 12 * ZoomDen THEN (speedFactor * 6) \div 100
  ELSE (speedFactor * 2) \div 100

\* getSpeedFactor(currentZoom) of DeckWindParticleLayer: the speedFactor prop scaled
getSpeedFactorDeck(zoom, speedFactor) ==
  IF zoom < 4 * ZoomDen THEN speedFactor
  ELSE IF zoom < 6 * ZoomDen THEN (speedFactor * 70) \div 100
  ELSE IF zoom < 8 * ZoomDen THEN (speedFactor * 40) \div 100
  ELSE IF zoom < 10 * ZoomDen THEN (speedFactor * 15) \div 100
  ELSE IF zoom < 12 * ZoomDen THEN (speedFactor * 6) \div 100
  ELSE (speedFactor * 2) \div 100

getSpeedFactor(variant, zoom, speedFactor) ==
  IF variant = "skia" THEN getSpeedFactorSkia(zoom)
  ELSE getSpeedFactorDeck(zoom, speedFactor)

\* getTrailLength(zoom, baseLength), identical in both components
getTrailLength(zoom, baseLength) ==
  IF zoom < 4 * ZoomDen THEN baseLength
  ELSE IF zoom < 6 * ZoomDen THEN FloorMul(baseLength, 80, 100)
  ELSE IF zoom < 8 * ZoomDen THEN FloorMul(baseLength, 60, 100)
  ELSE IF zoom < 10 * ZoomDen THEN FloorMul(baseLength, 40, 100)
  ELSE IF zoom < 12 * ZoomDen THEN FloorMul(baseLength, 25, 100)
  ELSE Max(3, FloorMul(baseLength, 15, 100))

\* ------------------------------------------------------------ wind fields
\* A WindData: RGBA bytes, row major, 4 per pixel (R = u, G = v, A = validity),
\* with the geographic bounds of the grid.  0 stands for windData = null.
\* Field 1: 2 x 2, three pixels with wind and one hole.  Field 2: 1 x 1, a hole
\* (validity 0) whose colour bytes still hold a wind.  Field 3: malformed, of
\* width 0 and with no bytes.
Field1Data ==
  << 140, 115, 0, 255,    204, 153, 0, 255,
       0,   0, 0,   0,    102, 153, 0, 255 >>

Field2Data == << 102, 153, 0, 0 >>

FieldIds == {1, 2}

FieldOf(id) ==
  IF id = 1
  THEN [width |-> 2, height |-> 2, data |-> Field1Data,
        west |-> -4 * PX, east |-> 0, south |-> 0, north |-> 2 * PX]
  ELSE IF id = 3
  THEN [width |-> 0, height |-> 1, data |-> <<>>,
        west |-> -4 * PX, east |-> 0, south |-> 0, north |-> 2 * PX]
  ELSE [width |-> 1, height |-> 1, data |-> Field2Data,
        west |-> -4 * PX, east |-> 0, south |-> 0, north |-> 2 * PX]

\* viewBounds / mapBounds: null until the map has reported its view
NullView == [set |-> FALSE, west |-> 0, east |-> 0, south |-> 0, north |-> 0]
\* a view that overlaps the north-east quarter of the fields
ViewOverlap ==
  [set |-> TRUE, west |-> -2 * PX, east |-> 2 * PX, south |-> PX, north |-> 3 * PX]
\* a view entirely east of the fields
ViewDisjoint ==
  [set |-> TRUE, west |-> 4 * PX, east |-> 8 * PX, south |-> 0, north |-> 2 * PX]
Views == {ViewOverlap, ViewDisjoint}

\* the zoom levels the map is moved to
SimZooms == {4 * ZoomDen, 5 * ZoomDen, 7 * ZoomDen}
\* useState(3) / mapCamera?.zoom ?? 3
DefaultZoom == 3 * ZoomDen

\* ---------------------------------------------------------------- random
\* Math.random() * span, the draw being k / RandDen
RandMul(k, span) == (k * span) \div RandDen
Draws == 0..(RandDen - 1)
\* the four draws of one spawn: longitude, latitude, age, maxAge
SpawnDraws == [lng : Draws, lat : Draws, age : Draws, maxAge : Draws]

\* ------------------------------------------------------------- geography
\* x = ((lng - west) / (east - west)) * width, in 1/PX pixel
LngToX(f, lng) == ((lng - f.west) * f.width * PX) \div (f.east - f.west)
\* y = ((north - lat) / (north - south)) * height
LatToY(f, lat) == ((f.north - lat) * f.height * PX) \div (f.north - f.south)
\* lng = west + (x / width) * (east - west)
XToLng(f, x) == f.west + (x * (f.east - f.west)) \div (f.width * PX)
\* lat = north - (y / height) * (north - south)
YToLat(f, y) == f.north - (y * (f.north - f.south)) \div (f.height * PX)

\* Math.floor(particle.x): the pixel column of a position
PixelOf(x) == x \div PX

\* the spawn bounds: the data bounds, or in DeckWindParticleLayer their
\* intersection with the view when there is one and zoom > 4
SpawnBounds(variant, f, view, zoom) ==
  IF variant = "deck" /\ view.set /\ zoom > 4 * ZoomDen
  THEN [west |-> Max(f.west, view.west), east |-> Min(f.east, view.east),
        south |-> Max(f.south, view.south), north |-> Min(f.north, view.north)]
  ELSE [west |-> f.west, east |-> f.east, south |-> f.south, north |-> f.north]

\* maxAge + Math.floor(Math.random() * 30) - 15
MaxAgeJitter == 30
DrawMaxAge(maxAge, k) == maxAge + RandMul(k, MaxAgeJitter) - 15

\* a particle spawned at a random place of the spawn bounds, with one trail point
SpawnAt(f, sb, d, age, maxAge) ==
  LET lng == sb.west + RandMul(d.lng, sb.east - sb.west)
      lat == sb.south + RandMul(d.lat, sb.north - sb.south)
  IN [x |-> LngToX(f, lng), y |-> LatToY(f, lat),
      age |-> age, maxAge |-> maxAge,
      trail |-> << [lng |-> lng, lat |-> lat, age |-> 0] >>]

\* initParticles(forceViewBounds, forceZoom): a new population of
\* getParticleCount(zoom) particles, ages drawn in [0, maxAge)
initParticles(variant, cfg, fid, view, zoom, draws) ==
  LET f == FieldOf(fid)
      sb == SpawnBounds(variant, f, view, zoom)
      n == getParticleCount(zoom, cfg.baseParticleCount)
  IN [i \in 1..n |->
        SpawnAt(f, sb, draws[i], RandMul(draws[i].age, cfg.maxAge),
                DrawMaxAge(cfg.maxAge, draws[i].maxAge))]

\* ------------------------------------------------------- updateParticles
\* the byte at data[idx + c] of the pixel (px, py)
ByteAt(f, px, py, c) == f.data[(py * f.width + px) * 4 + c + 1]

\* Math.floor(x) is a pixel of the grid
InGrid(f, x, y) ==
  /\ PixelOf(x) >= 0 /\ PixelOf(x) < f.width
  /\ PixelOf(y) >= 0 /\ PixelOf(y) < f.height

\* the validity byte is not looked at
ValidSampleAnyAlpha(f, p) == InGrid(f, p.x, p.y)

\* the sample at the particle is usable: inside the grid, validity byte > 0
ValidSample(f, p) == InGrid(f, p.x, p.y) /\ ByteAt(f, PixelOf(p.x), PixelOf(p.y), 3) > 0

\* (byte / 255) * 100 - 50, in 1/VelScale m/s
Decode(byte) == (byte * 100 * VelScale) \div 255 - 50 * VelScale

\* u * speedFactor, in 1/PX pixel
Displacement(vel, sf) == (vel * sf * PX) \div (VelScale * SpeedScale)

\* particle.trail.unshift(point); the Deck layer then ages every trail point
Unshift(variant, trail, lng, lat) ==
  LET t == <<[lng |-> lng, lat |-> lat, age |-> 0]>> \o trail
  IN IF variant = "deck"
     THEN [i \in 1..Len(t) |-> [t[i] EXCEPT !.age = @ + 1]]
     ELSE t

\* if (trail.length > currentTrailLength) trail = trail.slice(0, currentTrailLength)
Trim(trail, len) == IF Len(trail) > len THEN SubSeq(trail, 1, len) ELSE trail

\* the advection with a trail point added also when the sample is invalid
AdvectTrailing(variant, f, p, sf, trailLen) ==
  IF InGrid(f, p.x, p.y) /\ ByteAt(f, PixelOf(p.x), PixelOf(p.y), 3) > 0
  THEN LET px == PixelOf(p.x)
           py == PixelOf(p.y)
           x2 == p.x + Displacement(Decode(ByteAt(f, px, py, 0)), sf)
           y2 == p.y - Displacement(Decode(ByteAt(f, px, py, 1)), sf)
       IN [p EXCEPT !.x = x2, !.y = y2,
                    !.trail = Trim(Unshift(variant, p.trail, XToLng(f, x2), YToLat(f, y2)),
                                   trailLen)]
  ELSE [p EXCEPT !.trail = Unshift(variant, p.trail, XToLng(f, p.x), YToLat(f, p.y))]

\* the advection of one particle: a valid sample moves it and extends its trail,
\* an invalid one leaves it where it is
Advect(variant, f, p, sf, trailLen) ==
  IF ValidSample(f, p)
  THEN LET px == PixelOf(p.x)
           py == PixelOf(p.y)
           x2 == p.x + Displacement(Decode(ByteAt(f, px, py, 0)), sf)
           y2 == p.y - Displacement(Decode(ByteAt(f, px, py, 1)), sf)
       IN [p EXCEPT !.x = x2, !.y = y2,
                    !.trail = Trim(Unshift(variant, p.trail, XToLng(f, x2), YToLat(f, y2)),
                                   trailLen)]
  ELSE p

\* the reset condition, tested after particle.age++
NeedsReset(f, p) ==
  \/ p.age > p.maxAge
  \/ p.x < 0 \/ p.x >= f.width * PX
  \/ p.y < 0 \/ p.y >= f.height * PX

\* one pass of the forEach body over a particle
StepParticle(variant, cfg, f, view, zoom, p, d) ==
  LET sf == getSpeedFactor(variant, zoom, cfg.speedFactor)
      moved == Advect(variant, f, p, sf, getTrailLength(zoom, cfg.trailLength))
      aged == [moved EXCEPT !.age = @ + 1]
  IN IF NeedsReset(f, aged)
     THEN SpawnAt(f, SpawnBounds(variant, f, view, zoom), d, 0,
                  DrawMaxAge(cfg.maxAge, d.maxAge))
     ELSE aged

\* updateParticles(): nothing without wind data (or, in SkiaWindParticles,
\* without map bounds), else every particle is stepped
updateParticles(variant, cfg, fid, view, zoom, ps, draws) ==
  IF fid = 0 \/ (variant = "skia" /\ ~view.set) THEN ps
  ELSE [i \in 1..Len(ps) |->
          StepParticle(variant, cfg, FieldOf(fid), view, zoom, ps[i], draws[i])]

\* -------------------------------------------------------------- the output
\* projectToScreen(...) is not null: the point is in view
InView(view, pt) ==
  ~(pt.lng < view.west \/ pt.lng > view.east \/ pt.lat < view.south \/ pt.lat > view.north)

PathOf(trail) == [i \in 1..Len(trail) |-> <<trail[i].lng, trail[i].lat>>]

\* the positions of ps, in order, whose trail has more than one point
RECURSIVE Drawable(_, _)
Drawable(ps, i) ==
  IF i > Len(ps) THEN <<>>
  ELSE (IF Len(ps[i].trail) > 1 THEN <<i>> ELSE <<>>) \o Drawable(ps, i + 1)

\* createLayers(): the paths of the particles whose trail has more than one point
createLayers(ps) ==
  LET ids == Drawable(ps, 1) IN [k \in 1..Len(ids) |-> PathOf(ps[ids[k]].trail)]

\* buildPaths(): for each such particle the points in view, when there are two
RECURSIVE buildPathsFrom(_, _, _)
buildPathsFrom(ps, view, i) ==
  IF i > Len(ps) THEN <<>>
  ELSE LET vis == SelectSeq(ps[i].trail, LAMBDA pt : InView(view, pt))
       IN (IF Len(ps[i].trail) >= 2 /\ Len(vis) >= 2 THEN <<PathOf(vis)>> ELSE <<>>)
            \o buildPathsFrom(ps, view, i + 1)

buildPaths(ps, view) == buildPathsFrom(ps, view, 1)

\* -------------------------------------------------------------- the state
VARIABLES
  pol,                \* the policy evaluation at hand
  variant,            \* which component: "skia" or "deck"
  cfg,                \* the props baseParticleCount, trailLength, maxAge, speedFactor
  mounted,            \* the component is mounted
  props,              \* enabled, windData, zoom and viewBounds (mapBounds) as last rendered
  particles,          \* particlesRef.current
  animationFrameRef,  \* animationFrameRef.current (animationRef.current); 0 is null
  raf,                \* the host's requested frame callbacks, each with its closure
  overlay,            \* overlayRef.current is set
  paths,              \* the trails handed to the renderer (setPaths / setProps)
  cleanup,            \* the animation effect has a cleanup registered
  seedField,          \* the field the population was last initialized against
  sinceTick,          \* host time since the last executed tick of the running loop, capped
  steps,              \* updateParticles passes counted in the coasting scenario
  origin,             \* the positions at initialization in the coasting scenario
  buf,                \* useDoubleBufferedRasterLayer: its refs, its state and the map's layers
  pre,                \* usePreloadedRasterLayers: its refs, its state and the map's layers
  page                \* the page that uses the preloaded layers: its state and refs

polVars == <<pol>>
simVars == <<variant, cfg, mounted, props, particles, animationFrameRef, raf,
             overlay, paths, cleanup, seedField, sinceTick, steps, origin>>
layerVars == <<buf, pre, page>>
vars == <<pol, variant, cfg, mounted, props, particles, animationFrameRef, raf,
          overlay, paths, cleanup, seedField, sinceTick, steps, origin, buf, pre, page>>

\* ------------------------------------------------------ the frame clock
TargetFPS == 30
\* the host delivers a frame signal every FrameDt milliseconds
FrameDt == 17
\* elapsed times are kept up to the first whole millisecond past 1000 / targetFPS
TimeCap == 1000 \div TargetFPS + 1
\* currentTime - lastTime >= frameInterval
Due(elapsed) == elapsed * TargetFPS >= 1000

\* requestAnimationFrame returns an id no pending request has
NewId(pending) ==
  CHOOSE n \in 1..(Cardinality(pending) + 1) : \A f \in pending : f.id # n

\* the mutable refs of the component, handled as one record
Refs ==
  [particles |-> particles, ref |-> animationFrameRef, raf |-> raf,
   overlay |-> overlay, paths |-> paths, cleanup |-> cleanup, seed |-> seedField]

\* cancelAnimationFrame(ref) left out
CancelFrameSkipped(c) == c

\* if (animationFrameRef.current) cancelAnimationFrame(animationFrameRef.current)
CancelFrame(c) ==
  IF c.ref # 0 THEN [c EXCEPT !.raf = {f \in @ : f.id # c.ref}] ELSE c

\* the cleanup the animation effect returned, if it returned one
AnimCleanup(c) == IF c.cleanup THEN [CancelFrame(c) EXCEPT !.cleanup = FALSE] ELSE c

\* let lastTime = 0; animationFrameRef.current = requestAnimationFrame(animate):
\* the closure keeps the props of this render; frame times are past the first
\* frame interval, so currentTime - 0 is due
StartLoop(c, p) ==
  LET n == NewId(c.raf) IN
  [c EXCEPT !.raf = @ \cup {[id |-> n, fid |-> p.windData, view |-> p.view,
                              zoom |-> p.zoom, sinceLast |-> TimeCap]},
            !.ref = n, !.cleanup = TRUE]

\* initParticles() left out: the population is kept as it is
WithParticlesKept(c, fid, view, zoom, draws) == c

\* particlesRef.current = particles
WithParticles(c, fid, view, zoom, draws) ==
  [c EXCEPT !.particles = initParticles(variant, cfg, fid, view, zoom, draws),
            !.seed = fid]

\* zoom > 6 ? Math.floor(zoom) : 0
ZoomBucket(zoom) == IF zoom > 6 * ZoomDen THEN zoom \div ZoomDen ELSE 0

\* the initialization effect runs again without looking at windData
InitDepsChangedNoField(old, new, viewEvent) ==
  IF variant = "skia"
  THEN old.enabled # new.enabled \/ old.zoom # new.zoom \/ viewEvent
  ELSE ZoomBucket(old.zoom) # ZoomBucket(new.zoom) \/ old.enabled # new.enabled

\* the dependencies of the initialization effect changed between two renders
\* (viewEvent: a new viewBounds / mapBounds object was set)
InitDepsChanged(old, new, viewEvent) ==
  IF variant = "skia"
  THEN old.enabled # new.enabled \/ old.windData # new.windData
         \/ old.zoom # new.zoom \/ viewEvent
  ELSE ZoomBucket(old.zoom) # ZoomBucket(new.zoom)
         \/ old.enabled # new.enabled \/ old.windData # new.windData

\* the dependencies of the animation effect changed between two renders
AnimDepsChanged(old, new, viewEvent) ==
  old.enabled # new.enabled \/ old.windData # new.windData
    \/ old.zoom # new.zoom \/ viewEvent

\* the effects of SkiaWindParticles after a render, in order: cleanup of the
\* animation effect, the initialization effect, the animation effect
SkiaEffects(c, new, initDeps, animDeps, draws) ==
  LET ready == new.enabled /\ new.windData # 0 /\ new.view.set
      c1 == IF animDeps THEN AnimCleanup(c) ELSE c
      c2 == IF initDeps /\ ready
            THEN WithParticles(c1, new.windData, new.view, new.zoom, draws) ELSE c1
  IN IF ~animDeps THEN c2
     ELSE IF ~ready THEN [c2 EXCEPT !.paths = <<>>]
     ELSE StartLoop(c2, new)

\* the effects of DeckWindParticleLayer after a render, in order: cleanup of
\* the animation effect, the reinitialization effect, the animation effect
\* (which initializes against the map's current view, cam), the enable effect
DeckEffects(c, new, cam, initDeps, animDeps, enabledDeps, draws) ==
  LET c1 == IF animDeps THEN AnimCleanup(c) ELSE c
      c2 == IF initDeps /\ new.enabled /\ new.windData # 0 /\ new.view.set
            THEN WithParticles(c1, new.windData, new.view, new.zoom, draws) ELSE c1
      c3 == IF animDeps /\ new.enabled /\ new.windData # 0
            THEN StartLoop(WithParticles([c2 EXCEPT !.overlay = TRUE],
                                         new.windData, cam.view, cam.zoom, draws), new)
            ELSE c2
  IN IF enabledDeps /\ c3.overlay /\ ~new.enabled
     THEN [CancelFrame(c3) EXCEPT !.paths = <<>>, !.ref = 0]
     ELSE c3

Effects(c, new, cam, initDeps, animDeps, enabledDeps, draws) ==
  IF variant = "skia" THEN SkiaEffects(c, new, initDeps, animDeps, draws)
  ELSE DeckEffects(c, new, cam, initDeps, animDeps, enabledDeps, draws)

\* the refs after the effects, written back
Commit(c) ==
  /\ particles' = c.particles
  /\ animationFrameRef' = c.ref
  /\ raf' = c.raf
  /\ overlay' = c.overlay
  /\ paths' = c.paths
  /\ cleanup' = c.cleanup
  /\ seedField' = c.seed

\* what map.getBounds() and map.getZoom() can return
Cameras == [view : Views, zoom : SimZooms]
\* the draws of a population of getParticleCount(zoom) particles, made only when
\* an effect will call initParticles
DrawsFor(new, zoom) ==
  IF new.enabled /\ new.windData # 0 /\ (variant = "skia" => new.view.set)
  THEN [1..getParticleCount(zoom, cfg.baseParticleCount) -> SpawnDraws]
  ELSE {<<>>}


\* ------------------------------------------------ the policy, evaluated
Variants == {"skia", "deck"}
MaxBaseCount == 41
BaseCounts == 0..MaxBaseCount
\* speedFactor props, in 1/SpeedScale: multiples of 0.01 up to 0.25
MaxSpeedProp == 25
BaseSpeeds == {100 * k : k \in 0..MaxSpeedProp}
MaxTrailProp == 16
BaseTrails == 0..MaxTrailProp

\* paramsForZoom: one evaluation of the three policy functions at zooms z1, z2
PolicyAt(fn, vr, z1, z2, baseCount, baseSpeed, baseTrail) ==
  [fn |-> fn, variant |-> vr, z1 |-> z1, z2 |-> z2,
   baseCount |-> baseCount,
   baseSpeed |-> IF vr = "skia" THEN SkiaSpeedBase ELSE baseSpeed,
   baseTrail |-> baseTrail,
   count1 |-> getParticleCount(z1, baseCount),
   count2 |-> getParticleCount(z2, baseCount),
   speed1 |-> getSpeedFactor(vr, z1, baseSpeed),
   speed2 |-> getSpeedFactor(vr, z2, baseSpeed),
   trail1 |-> getTrailLength(z1, baseTrail)]

PolicyIdle == PolicyAt("none", "skia", 0, 0, 0, SkiaSpeedBase, 0)

\* ------------------------------------------------------------ the component
\* the props the simulation is run with
SimBaseCount == 2
SimMaxAge == 16
SimTrailProps == {1, 3}
Configs ==
  [baseParticleCount : {SimBaseCount}, trailLength : SimTrailProps,
   maxAge : {SimMaxAge}, speedFactor : {SkiaSpeedBase}]

\* baseOpacity = 0.7, in percent
BaseOpacity == 70

\* useDoubleBufferedRasterLayer after its first render, the map loaded: the refs
\* and the state as constructed, no source and no layer on the map yet.
\* Tile URLs are 1, 2, ... and 0 is null.
DbHookInit ==
  [activeLayerRef |-> "A",
   isTransitioning |-> FALSE,    \* the state of useState(false)
   seen |-> FALSE,               \* isTransitioning as closed over by the caller's transitionToTiles
   isInitializedRef |-> FALSE,
   pendingTransitionRef |-> 0,
   opacityRef |-> BaseOpacity,
   currentTilesRef |-> [A |-> 0, B |-> 0],
   layers |-> FALSE,             \* the two sources and the two layers are on the map
   opacity |-> [A |-> 0, B |-> 0],        \* raster-opacity of each layer
   loaded |-> [A |-> FALSE, B |-> FALSE], \* map.isSourceLoaded of each source
   waiting |-> [A |-> FALSE, B |-> FALSE],\* tiles set by transitionToTiles, not yet reported loaded
   listeners |-> {},             \* the onSourceData handlers registered on the map
   timers |-> {},                \* the setTimeout callbacks not yet run
   fades |-> {},                 \* the crossfades whose next frame is requested
   calls |-> 0,                  \* the calls the caller has made so far
   requested |-> 0]              \* the tile URL of the caller's most recent call

\* the number of forecast hours in forecastHours; the hours are 1 .. NumHours,
\* forecastHours[0] is 1, and 0 is null
NumHours == 3
ForecastHours == 1..NumHours

\* usePreloadedRasterLayers after its first render, the map loaded and
\* enabled = true: the refs and the state as constructed, nothing on the map
PreHookInit ==
  [isReady |-> FALSE,
   loadedCount |-> 0,
   totalCount |-> 0,
   activeForecast |-> 0,
   isInitializedRef |-> FALSE,
   opacityRef |-> BaseOpacity,
   loadedSourcesRef |-> {},
   activeForecastRef |-> 0,
   enabled |-> TRUE,
   noUrl |-> {},                 \* the hours buildTileUrl returns null for
   layers |-> {},                \* the hours whose source and layer are on the map
   opacity |-> [h \in ForecastHours |-> 0],   \* raster-opacity of each layer
   reported |-> {},              \* the hours whose source has reported loaded
   listeners |-> {},             \* the hours an onSourceData handler is registered for
   timers |-> 0,                 \* the setTimeout(initialize, 50) not yet run
   calls |-> 0,                  \* the calls the caller has made so far
   last |-> "none"]              \* the function called last

\* the page after its first render, the map loaded: no metadata yet, no variable
\* selected (0 is null), the weather layer enabled as useState(true) has it
PageStart ==
  [weatherMetadata |-> FALSE,
   selectedVariableId |-> 0,
   weatherLayerEnabled |-> TRUE,
   weatherLayerInitializedRef |-> FALSE]

\* nothing mounted: no refs, no state, no frame requested
Unmounted ==
  /\ mounted = FALSE
  /\ props = [enabled |-> TRUE, windData |-> 0, zoom |-> DefaultZoom, view |-> NullView]
  /\ particles = <<>>
  /\ animationFrameRef = 0
  /\ raf = {}
  /\ overlay = FALSE
  /\ paths = <<>>
  /\ cleanup = FALSE
  /\ seedField = 0
  /\ sinceTick = TimeCap
  /\ steps = 0
  /\ origin = <<>>

Init ==
  /\ pol = PolicyIdle
  /\ buf = DbHookInit
  /\ pre = PreHookInit
  /\ page = PageStart
  /\ variant \in Variants
  /\ cfg \in Configs
  /\ Unmounted

\* the view the animation effect reads from the map: the one last reported, or,
\* before the first report has been rendered, any
CamsFor(new) ==
  IF new.view.set THEN {[view |-> new.view, zoom |-> new.zoom]}
  ELSE IF variant = "deck" THEN Cameras
  ELSE {[view |-> NullView, zoom |-> new.zoom]}

\* the animation effect of a render with these props starts the loop
Running(p) == p.enabled /\ p.windData # 0 /\ (variant = "skia" => p.view.set)

\* a render with the props new, and its effects
Render(new, viewEvent) ==
  /\ props' = new
  /\ sinceTick' = IF Running(new) THEN sinceTick ELSE TimeCap
  /\ \E cam \in CamsFor(new) : \E draws \in DrawsFor(new, cam.zoom) :
       Commit(Effects(Refs, new, cam,
                      InitDepsChanged(props, new, viewEvent),
                      AnimDepsChanged(props, new, viewEvent),
                      props.enabled # new.enabled, draws))
  /\ UNCHANGED <<buf, pre, page, pol, variant, cfg, mounted, steps, origin>>

\* the component mounts: zoom state 3, no view yet, every effect runs
Mount ==
  /\ ~mounted
  /\ \E e \in BOOLEAN, w \in FieldIds \cup {0} :
       LET new == [enabled |-> e, windData |-> w, zoom |-> DefaultZoom, view |-> NullView]
           fresh == [particles |-> <<>>, ref |-> 0, raf |-> raf, overlay |-> FALSE,
                     paths |-> <<>>, cleanup |-> FALSE, seed |-> 0]
       IN /\ props' = new
          /\ \E cam \in CamsFor(new) : \E draws \in DrawsFor(new, cam.zoom) :
               Commit(Effects(fresh, new, cam, TRUE, TRUE, TRUE, draws))
  /\ mounted' = TRUE
  /\ UNCHANGED <<buf, pre, page, pol, variant, cfg, sinceTick, steps, origin>>

\* updateView on moveend / zoomend (a new mapCamera and mapBounds for
\* SkiaWindParticles): the view and zoom of the map become state
MoveEnd ==
  /\ mounted
  /\ \E cam \in Cameras :
       Render([props EXCEPT !.zoom = cam.zoom, !.view = cam.view], TRUE)

\* the enabled prop is toggled
SetEnabled ==
  /\ mounted
  /\ Render([props EXCEPT !.enabled = ~@], FALSE)

\* the windData prop is replaced
SetWindData ==
  /\ mounted
  /\ \E w \in (FieldIds \cup {0}) \ {props.windData} :
       Render([props EXCEPT !.windData = w], FALSE)

\* the component unmounts: the cleanups run, the refs and the state are gone
Unmount ==
  /\ mounted
  /\ LET c1 == AnimCleanup(Refs)
         c2 == IF variant = "deck" THEN CancelFrame(c1) ELSE c1
     IN raf' = c2.raf
  /\ mounted' = FALSE
  /\ props' = [enabled |-> TRUE, windData |-> 0, zoom |-> DefaultZoom, view |-> NullView]
  /\ particles' = <<>>
  /\ animationFrameRef' = 0
  /\ overlay' = FALSE
  /\ paths' = <<>>
  /\ cleanup' = FALSE
  /\ seedField' = 0
  /\ sinceTick' = TimeCap
  /\ UNCHANGED <<buf, pre, page, pol, variant, cfg, steps, origin>>

RespawnDraws == {d \in SpawnDraws : d.age = 0}

\* the tick of animate: updateParticles(), then the trails are handed over
Tick(f, draws) ==
  LET ps == updateParticles(variant, cfg, f.fid, f.view, f.zoom, particles, draws)
  IN /\ particles' = ps
     /\ paths' = IF variant = "skia" THEN buildPaths(ps, f.view)
                 ELSE IF overlay THEN createLayers(ps) ELSE paths

\* the host delivers a requested frame, FrameDt after the previous frame signal:
\* animate(currentTime) ticks when it is due and requests the next frame
Frame ==
  \E f \in raf :
    LET el == Min(f.sinceLast + FrameDt, TimeCap)
        others == {[g EXCEPT !.sinceLast = Min(@ + FrameDt, TimeCap)] : g \in raf \ {f}}
        n == NewId(others)
    IN /\ IF Due(el)
          THEN /\ \E draws \in [1..Len(particles) -> RespawnDraws] : Tick(f, draws)
               /\ sinceTick' = 0
          ELSE /\ UNCHANGED <<particles, paths>>
               /\ sinceTick' = Min(sinceTick + FrameDt, TimeCap)
       /\ raf' = others \cup {[f EXCEPT !.id = n, !.sinceLast = IF Due(el) THEN 0 ELSE el]}
       /\ animationFrameRef' = n
       /\ UNCHANGED <<buf, pre, page, pol, variant, cfg, mounted, props, overlay, cleanup, seedField,
                       steps, origin>>

Next == Mount \/ MoveEnd \/ SetEnabled \/ SetWindData \/ Unmount \/ Frame

Spec == Init /\ [][Next]_vars

\* ------------------------------------------------ the policy, as a machine
PolicyInit ==
  /\ pol = PolicyIdle
  /\ buf = DbHookInit
  /\ pre = PreHookInit
  /\ page = PageStart
  /\ variant = "skia"
  /\ cfg \in Configs
  /\ Unmounted

\* the count policy at two zoom levels
EvalCount ==
  /\ pol.fn = "none"
  /\ \E z1 \in ZoomGrid, z2 \in ZoomGrid, b \in BaseCounts :
       pol' = PolicyAt("count", "skia", z1, z2, b, SkiaSpeedBase, 0)

\* the speed policy of either component at two zoom levels
EvalSpeed ==
  /\ pol.fn = "none"
  /\ \E v \in Variants, z1 \in ZoomGrid, z2 \in ZoomGrid, s \in BaseSpeeds :
       pol' = PolicyAt("speed", v, z1, z2, 0, s, 0)

\* the trail policy
EvalTrail ==
  /\ pol.fn = "none"
  /\ \E z1 \in ZoomGrid, t \in BaseTrails :
       pol' = PolicyAt("trail", "skia", z1, z1, 0, SkiaSpeedBase, t)

\* the result is consumed; the next evaluation starts afresh
PolicyDone ==
  /\ pol.fn # "none"
  /\ pol' = PolicyIdle

PolicyNext == EvalCount \/ EvalSpeed \/ EvalTrail \/ PolicyDone

SpecPolicy == PolicyInit /\ [][PolicyNext /\ UNCHANGED <<simVars, layerVars>>]_vars

\* ------------------------------------------- the pure helpers, as a machine
\* magnitudes are counted in 1/MagDen m/s, up to MaxMagnitude m/s
MagDen == 10
MaxMagnitude == 50
Magnitudes == 0..(MaxMagnitude * MagDen)
\* COLOR_SCALE.length and const maxSpeed = 40
ColorScaleLen == 10
MaxSpeed == 40

\* getColorForMagnitude(magnitude): the index of the COLOR_SCALE entry returned,
\* Math.min(Math.floor(Math.min(magnitude / maxSpeed, 1) * (length - 1)), length - 1)
getColorForMagnitude(magnitude) ==
  LET clamped == Min(magnitude, MaxSpeed * MagDen)
  IN Min((clamped * (ColorScaleLen - 1)) \div (MaxSpeed * MagDen), ColorScaleLen - 1)

\* the colour of a magnitude
EvalColor ==
  /\ pol.fn = "none"
  /\ \E m \in Magnitudes :
       pol' = [fn |-> "color", magnitude |-> m, index |-> getColorForMagnitude(m)]

\* data[idx] of a typed array: undefined past its end
Undefined == -1
DataAt(f, idx) == IF idx + 1 \in 1..Len(f.data) THEN f.data[idx + 1] ELSE Undefined

\* decodeWindComponent with the byte normalized by 256
decodeWindComponent256(encoded, min, max) ==
  IF encoded = -1 THEN -100000 ELSE (encoded * (max - min) * 255) \div 256 + 255 * min

\* decodeWindComponent(encoded, min, max) = (encoded / 255) * (max - min) + min,
\* in 1/255 m/s; NaN for an undefined byte
NaN == -100000
decodeWindComponent(encoded, min, max) ==
  IF encoded = Undefined THEN NaN ELSE encoded * (max - min) + 255 * min

\* getWindAtPixel without the test of the validity byte
Null == [valid |-> FALSE]
getWindAtPixelUnmasked(fid, x, y) ==
  LET f == FieldOf(fid)
      px == PixelOf(x)
      py == PixelOf(y)
      idx == (py * f.width + px) * 4
  IN IF fid = 0 THEN Null
     ELSE IF px < 0 \/ px >= f.width \/ py < 0 \/ py >= f.height THEN Null
     ELSE [valid |-> TRUE,
           u |-> decodeWindComponent(DataAt(f, idx), -50, 50),
           v |-> decodeWindComponent(DataAt(f, idx + 1), -50, 50)]

\* getWindAtPixel(x, y) with the windData state fid (0: null): null, or the
\* sample decoded from the pixel's bytes
getWindAtPixel(fid, x, y) ==
  LET f == FieldOf(fid)
      px == PixelOf(x)
      py == PixelOf(y)
      idx == (py * f.width + px) * 4
  IN IF fid = 0 THEN Null
     ELSE IF px < 0 \/ px >= f.width \/ py < 0 \/ py >= f.height THEN Null
     ELSE IF DataAt(f, idx + 3) = 0 THEN Null
     ELSE [valid |-> TRUE,
           u |-> decodeWindComponent(DataAt(f, idx), -50, 50),
           v |-> decodeWindComponent(DataAt(f, idx + 1), -50, 50)]

\* getWindAtLatLng(lat, lng)
getWindAtLatLng(fid, lat, lng) ==
  IF fid = 0 THEN Null
  ELSE getWindAtPixel(fid, LngToX(FieldOf(fid), lng), LatToY(FieldOf(fid), lat))

\* the windData states sampled: null (nothing loaded, or the load of an image of
\* zero dimensions failed in getImageData) and the fields decoded from an image;
\* the pixel coordinates and the longitudes / latitudes asked for
SampledFields == {0, 1, 2}
SampleCoords == {-PX, -1, 0, PX - 1, PX, 2 * PX - 1, 2 * PX}
SampleLngs == {-5 * PX, -4 * PX, -3 * PX, -PX, 0}
SampleLats == {-PX, 0, PX, 2 * PX}

\* a call of getWindAtPixel
EvalSample ==
  /\ pol.fn = "none"
  /\ \E fid \in SampledFields, x \in SampleCoords, y \in SampleCoords :
       pol' = [fn |-> "sample", fid |-> fid, x |-> x, y |-> y,
               result |-> getWindAtPixel(fid, x, y)]

\* a call of getWindAtLatLng
EvalSampleAt ==
  /\ pol.fn = "none"
  /\ \E fid \in SampledFields, lng \in SampleLngs, lat \in SampleLats :
       pol' = [fn |-> "sample", fid |-> fid,
               x |-> LngToX(FieldOf(fid), lng), y |-> LatToY(FieldOf(fid), lat),
               result |-> getWindAtLatLng(fid, lat, lng)]

\* the byte values, and the decode ranges (min, max) in m/s: the default of
\* decodeWindComponent and two narrower ones
Bytes == 0..255
DecodeRanges == {<<-50, 50>>, <<-5, 5>>, <<0, 1>>}

\* two bytes decoded by decodeWindComponent, the first also by the step loop
EvalDecode ==
  /\ pol.fn = "none"
  /\ \E b1 \in Bytes, b2 \in Bytes, r \in DecodeRanges :
       pol' = [fn |-> "decode", b1 |-> b1, b2 |-> b2, min |-> r[1], max |-> r[2],
               d1 |-> decodeWindComponent(b1, r[1], r[2]),
               d2 |-> decodeWindComponent(b2, r[1], r[2]),
               inline1 |-> Decode(b1)]

\* The two mappings over the rationals, a number being a numerator xn over a
\* denominator xd:
\*   x = ((lng - west) / (east - west)) * width
\*   y = ((north - lat) / (north - south)) * height
GeoToPixel(f, lng, lat) ==
  [xn |-> (lng - f.west) * f.width, xd |-> f.east - f.west,
   yn |-> (f.north - lat) * f.height, yd |-> f.north - f.south]

\* the pixel-to-geographic mapping with the latitude measured from the south edge
PixelToGeoFromSouth(f, px) ==
  [lngn |-> f.west * px.xd * f.width + px.xn * (f.east - f.west),
   lngd |-> px.xd * f.width,
   latn |-> f.south * px.yd * f.height + px.yn * (f.north - f.south),
   latd |-> px.yd * f.height]

\*   lng = west + (x / width) * (east - west)
\*   lat = north - (y / height) * (north - south)
PixelToGeo(f, px) ==
  [lngn |-> f.west * px.xd * f.width + px.xn * (f.east - f.west),
   lngd |-> px.xd * f.width,
   latn |-> f.north * px.yd * f.height - px.yn * (f.north - f.south),
   latd |-> px.yd * f.height]

\* the coordinates converted: GeoSteps + 1 evenly spread values from one edge of
\* the field to the other, both edges included
GeoSteps == 7
GeoBetween(lo, hi) == {lo + (k * (hi - lo)) \div GeoSteps : k \in 0..GeoSteps}

\* a coordinate inside the field converted to pixel space and back
EvalGeo ==
  /\ pol.fn = "none"
  /\ \E fid \in FieldIds :
       LET f == FieldOf(fid)
       IN \E lng \in GeoBetween(f.west, f.east), lat \in GeoBetween(f.south, f.north) :
            pol' = [fn |-> "geo", fid |-> fid, lng |-> lng, lat |-> lat,
                    px |-> GeoToPixel(f, lng, lat),
                    back |-> PixelToGeo(f, GeoToPixel(f, lng, lat))]

PureNext == EvalColor \/ EvalSample \/ EvalSampleAt \/ EvalDecode \/ EvalGeo \/ PolicyDone

SpecPure == PolicyInit /\ [][PureNext /\ UNCHANGED <<simVars, layerVars>>]_vars

\* ------------------------------------- coasting in a field without wind
\* the default props trailLength = 15 and maxAge = 80
DefaultTrailLength == 15
DefaultMaxAge == 80
CoastCfg ==
  [baseParticleCount |-> SimBaseCount, trailLength |-> DefaultTrailLength,
   maxAge |-> DefaultMaxAge, speedFactor |-> SkiaSpeedBase]
\* the number of consecutive updateParticles passes looked at
CoastSteps == 100

\* the pixel positions of a population
PositionsOf(ps) == [i \in 1..Len(ps) |-> [x |-> ps[i].x, y |-> ps[i].y]]

\* a population just initialized against the field fid
InitializedOn(fid) ==
  /\ pol = PolicyIdle
  /\ buf = DbHookInit
  /\ pre = PreHookInit
  /\ page = PageStart
  /\ variant \in Variants
  /\ cfg = CoastCfg
  /\ mounted = TRUE
  /\ \E cam \in Cameras :
       /\ props = [enabled |-> TRUE, windData |-> fid, zoom |-> cam.zoom, view |-> cam.view]
       /\ \E draws \in [1..getParticleCount(cam.zoom, cfg.baseParticleCount) -> SpawnDraws] :
            particles = initParticles(variant, cfg, fid, cam.view, cam.zoom, draws)
  /\ origin = PositionsOf(particles)
  /\ animationFrameRef = 0
  /\ raf = {}
  /\ overlay = FALSE
  /\ paths = <<>>
  /\ cleanup = FALSE
  /\ seedField = fid
  /\ sinceTick = TimeCap
  /\ steps = 0

\* a population just initialized against field 2, no pixel of which is valid
CoastInit == InitializedOn(2)

\* one more call of updateParticles()
CoastStep ==
  /\ steps < CoastSteps
  /\ \E draws \in [1..Len(particles) -> RespawnDraws] :
       particles' = updateParticles(variant, cfg, props.windData, props.view, props.zoom,
                                    particles, draws)
  /\ steps' = steps + 1
  /\ UNCHANGED <<buf, pre, page, pol, variant, cfg, mounted, props, animationFrameRef, raf, overlay,
                 paths, cleanup, seedField, sinceTick, origin>>

SpecCoast == CoastInit /\ [][CoastStep]_vars

\* ---------------------------------------------- stepping in a malformed field
\* a population just initialized against field 3, of width 0
ZeroInit == InitializedOn(3)

\* one more call of updateParticles() with that field
ZeroStep == props.windData = 3 /\ CoastStep

SpecZero == ZeroInit /\ [][ZeroStep]_vars

\* ------------------------------------------ the double-buffered raster layer
\* the tile URLs the caller moves between
TileUrls == {1, 2, 3}
\* the opacities the caller sets, in percent
SetOpacities == {40, BaseOpacity}
\* the number of frames a crossfade of crossfadeDuration takes
CrossfadeFrames == 2
\* the number of calls the caller makes
MaxCalls == 5
Layers == {"A", "B"}
OtherLayer(l) == IF l = "A" THEN "B" ELSE "A"

\* the ease in-out curve at progress k / CrossfadeFrames, as num / den:
\*   progress < 0.5 ? 2 * progress^2 : 1 - (-2 * progress + 2)^2 / 2
Eased(k) ==
  IF 2 * k < CrossfadeFrames
  THEN [num |-> 2 * k * k, den |-> CrossfadeFrames * CrossfadeFrames]
  ELSE [num |-> 2 * CrossfadeFrames * CrossfadeFrames
                  - (2 * CrossfadeFrames - 2 * k) * (2 * CrossfadeFrames - 2 * k),
        den |-> 2 * CrossfadeFrames * CrossfadeFrames]

\* cancelAnimationFrame(animationFrameRef.current): the frame requested last
CancelLatest(fs) == {f \in fs : ~f.latest}

\* requestAnimationFrame(animate) by the crossfade f: its frame is now the one
\* animationFrameRef.current holds
RequestFrame(fs, f) ==
  {[g EXCEPT !.latest = FALSE] : g \in fs} \cup {[f EXCEPT !.latest = TRUE]}

\* cleanup() applied to the hook state b
CleanedUp(b) ==
  [b EXCEPT !.fades = CancelLatest(b.fades),
            !.layers = FALSE,
            !.loaded = [A |-> FALSE, B |-> FALSE],
            !.waiting = [A |-> FALSE, B |-> FALSE],
            !.opacity = [A |-> 0, B |-> 0],
            !.isInitializedRef = FALSE,
            !.currentTilesRef = [A |-> 0, B |-> 0]]

\* cleanup(), also run on unmount
DbCleanup ==
  /\ buf.calls < MaxCalls
  /\ buf.isInitializedRef \/ buf.fades # {}
  /\ buf' = [CleanedUp(buf) EXCEPT !.calls = @ + 1]
  /\ UNCHANGED <<pol, simVars, pre, page>>

\* initialize(initialTileUrl): both sources on the initial tiles, layer A at the
\* current opacity, layer B at 0
DbInitialize ==
  /\ buf.calls < MaxCalls
  /\ ~buf.isInitializedRef
  /\ \E url \in TileUrls :
       buf' = [CleanedUp(buf) EXCEPT
                 !.calls = @ + 1,
                 !.requested = url,
                 !.layers = TRUE,
                 !.opacity = [A |-> buf.opacityRef, B |-> 0],
                 !.currentTilesRef = [A |-> url, B |-> url],
                 !.activeLayerRef = "A",
                 !.isInitializedRef = TRUE]
  /\ UNCHANGED <<pol, simVars, pre, page>>

\* setOpacity(opacity): the ref, and the paint of the active layer if it exists
DbSetOpacity ==
  /\ \E o \in SetOpacities :
       /\ buf.calls < MaxCalls
       /\ o # buf.opacityRef
       /\ buf' = [buf EXCEPT !.calls = @ + 1,
                             !.opacityRef = o,
                             !.opacity[buf.activeLayerRef] = IF buf.layers THEN o ELSE @]
  /\ UNCHANGED <<pol, simVars, pre, page>>

\* animateCrossfade(fromLayer, toLayer) up to its first requestAnimationFrame
animateCrossfade(b, fromLayer, toLayer) ==
  [b EXCEPT !.fades = RequestFrame(b.fades,
                        [from |-> fromLayer, to |-> toLayer, progress |-> 0,
                         targetOpacity |-> b.opacityRef, latest |-> TRUE])]

\* transitionToTiles(tileUrl) as created by a render in which isTransitioning
\* was isT; cached tells whether map.isSourceLoaded holds right after setTiles
transitionToTiles(b, tileUrl, isT, cached) ==
  LET currentActive == b.activeLayerRef
      targetLayer == OtherLayer(currentActive)
      assigned == [b EXCEPT !.isTransitioning = TRUE,
                            !.currentTilesRef[targetLayer] = tileUrl,
                            !.loaded[targetLayer] = cached,
                            !.waiting[targetLayer] = ~cached]
  IN IF ~b.isInitializedRef THEN b
     ELSE IF b.currentTilesRef[currentActive] = tileUrl THEN b
     ELSE IF isT THEN [b EXCEPT !.pendingTransitionRef = tileUrl]
     ELSE IF cached THEN animateCrossfade(assigned, currentActive, targetLayer)
     ELSE [assigned EXCEPT
             !.listeners = @ \cup {[from |-> currentActive, to |-> targetLayer]},
             !.timers = @ \cup {[kind |-> "fallback", from |-> currentActive,
                                 to |-> targetLayer, isT |-> isT, url |-> 0]}]

\* the caller calls the transitionToTiles it got from the last render
DbTransitionToTiles ==
  /\ \E url \in TileUrls, cached \in BOOLEAN :
       /\ buf.calls < MaxCalls
       /\ buf' = [transitionToTiles(buf, url, buf.seen, cached) EXCEPT
                    !.calls = @ + 1, !.requested = url]
  /\ UNCHANGED <<pol, simVars, pre, page>>

\* the component renders again: the caller gets a transitionToTiles that closes
\* over the current isTransitioning
DbRender ==
  /\ buf.seen # buf.isTransitioning
  /\ buf' = [buf EXCEPT !.seen = buf.isTransitioning]
  /\ UNCHANGED <<pol, simVars, pre, page>>

\* the map fires sourcedata with isSourceLoaded for the source of layer l: every
\* onSourceData registered for it unregisters itself and starts its crossfade
DbSourceData ==
  /\ \E l \in Layers :
       /\ buf.layers
       /\ ~buf.loaded[l]
       /\ LET heard == {h \in buf.listeners : h.to = l}
              told == [buf EXCEPT !.loaded[l] = TRUE,
                                  !.waiting[l] = FALSE,
                                  !.listeners = @ \ heard]
          IN buf' = IF heard = {} THEN told
                    ELSE animateCrossfade(told, OtherLayer(l), l)
  /\ UNCHANGED <<pol, simVars, pre, page>>

\* a frame of a crossfade: animate(currentTime), the last one completing it
DbAnimate ==
  /\ \E f \in buf.fades, k \in 1..CrossfadeFrames :
       /\ k > f.progress
       /\ LET e == Eased(k)
              fromOpacity == (f.targetOpacity * (e.den - e.num)) \div e.den
              toOpacity == (f.targetOpacity * e.num) \div e.den
              rest == buf.fades \ {f}
          IN buf' =
               IF k < CrossfadeFrames
               THEN [buf EXCEPT
                       !.opacity = IF buf.layers
                                   THEN [@ EXCEPT ![f.from] = fromOpacity, ![f.to] = toOpacity]
                                   ELSE @,
                       !.fades = RequestFrame(rest, [f EXCEPT !.progress = k])]
               ELSE [buf EXCEPT
                       !.opacity = IF buf.layers
                                   THEN [@ EXCEPT ![f.from] = 0, ![f.to] = f.targetOpacity]
                                   ELSE @,
                       !.fades = rest,
                       !.activeLayerRef = f.to,
                       !.isTransitioning = FALSE,
                       !.pendingTransitionRef = 0,
                       !.timers = IF buf.pendingTransitionRef # 0
                                  THEN @ \cup {[kind |-> "pending", from |-> f.from, to |-> f.to,
                                                isT |-> FALSE, url |-> buf.pendingTransitionRef]}
                                  ELSE @]
  /\ UNCHANGED <<pol, simVars, pre, page>>

\* setTimeout(() => transitionToTiles(pending), 0) runs: animateCrossfade was
\* created by the first render, and so was the transitionToTiles it calls
DbPendingTimeout ==
  /\ \E t \in buf.timers, cached \in BOOLEAN :
       /\ t.kind = "pending"
       /\ buf' = transitionToTiles([buf EXCEPT !.timers = @ \ {t}], t.url, FALSE, cached)
  /\ UNCHANGED <<pol, simVars, pre, page>>

\* the 5 s fallback of a transition runs: the listener is removed, and the
\* crossfade started if the isTransitioning the transition closed over is set
DbFallbackTimeout ==
  /\ \E t \in buf.timers :
       /\ t.kind = "fallback"
       /\ LET off == [buf EXCEPT !.timers = @ \ {t},
                                 !.listeners = @ \ {[from |-> t.from, to |-> t.to]}]
          IN buf' = IF t.isT THEN animateCrossfade(off, t.from, t.to) ELSE off
  /\ UNCHANGED <<pol, simVars, pre, page>>

DbNext ==
  \/ DbInitialize \/ DbCleanup \/ DbSetOpacity \/ DbTransitionToTiles \/ DbRender
  \/ DbSourceData \/ DbAnimate \/ DbPendingTimeout \/ DbFallbackTimeout

SpecBuffer == PolicyInit /\ [][DbNext]_vars

\* the host runs what it has been handed: a requested frame, a timeout, a render
\* after a state change; and a source that is loading reports loaded
DbFairness ==
  /\ WF_vars(DbSourceData)
  /\ WF_vars(DbAnimate)
  /\ WF_vars(DbPendingTimeout)
  /\ WF_vars(DbFallbackTimeout)
  /\ WF_vars(DbRender)

SpecBufferLive == PolicyInit /\ [][DbNext]_vars /\ DbFairness

\* ------------------------------------------------ the preloaded raster layers
\* cleanup() applied to the hook state p: every layer and source removed
PreCleanedUp(p) ==
  [p EXCEPT !.layers = {},
            !.opacity = [h \in ForecastHours |-> 0],
            !.reported = {},
            !.isInitializedRef = FALSE,
            !.loadedSourcesRef = {},
            !.isReady = FALSE,
            !.loadedCount = 0,
            !.activeForecast = 0,
            !.activeForecastRef = 0]

\* checkAllLoaded() with ready as soon as one source has loaded
checkAllLoadedAny(p) ==
  LET loaded == Cardinality(p.loadedSourcesRef)
      counted == [p EXCEPT !.loadedCount = loaded]
  IN IF loaded < 1 THEN counted
     ELSE IF p.activeForecastRef # 0 THEN [counted EXCEPT !.isReady = TRUE]
     ELSE [counted EXCEPT !.isReady = TRUE,
                          !.activeForecastRef = 1,
                          !.activeForecast = 1,
                          !.opacity[1] = IF 1 \in p.layers THEN p.opacityRef ELSE @]

\* checkAllLoaded(): the count, and when it has reached total, isReady and the
\* layer of forecastHours[0] made visible unless a forecast is active already
checkAllLoaded(p) ==
  LET loaded == Cardinality(p.loadedSourcesRef)
      counted == [p EXCEPT !.loadedCount = loaded]
  IN IF loaded < NumHours THEN counted
     ELSE IF p.activeForecastRef # 0 THEN [counted EXCEPT !.isReady = TRUE]
     ELSE [counted EXCEPT !.isReady = TRUE,
                          !.activeForecastRef = 1,
                          !.activeForecast = 1,
                          !.opacity[1] = IF 1 \in p.layers THEN p.opacityRef ELSE @]

\* initialize(): a source, a hidden layer and a listener for every hour; cached
\* are the hours map.isSourceLoaded holds for right after addLayer
initializeLayers(p, cached) ==
  IF p.isInitializedRef \/ ~p.enabled \/ NumHours = 0 THEN p
  ELSE LET created == ForecastHours \ p.noUrl
           added == [PreCleanedUp(p) EXCEPT
                       !.totalCount = NumHours,
                       !.layers = created,
                       !.listeners = @ \cup created,
                       !.reported = cached \cap created,
                       !.loadedSourcesRef = cached \cap created,
                       !.isInitializedRef = TRUE]
       IN IF cached \cap created = {} THEN added ELSE checkAllLoaded(added)

\* the first paint of setActiveForecast being the hiding of the previous layer
hiddenFirst(p, forecastHour) ==
  IF p.activeForecastRef # 0 /\ p.activeForecastRef # forecastHour
  THEN [p.opacity EXCEPT ![p.activeForecastRef] = 0]
  ELSE p.opacity

\* the opacities after the first paint of setActiveForecast(forecastHour): the
\* new layer set to the current opacity, the previous one not yet hidden
shownFirst(p, forecastHour) ==
  [p.opacity EXCEPT ![forecastHour] =
     IF forecastHour \in p.layers THEN p.opacityRef ELSE @]

\* setActiveForecast(forecastHour) as created by a render in which isReady was
\* ready: the new layer shown first, then the previous one hidden
setActiveForecast(p, forecastHour, ready) ==
  LET previousForecast == p.activeForecastRef
      shown == shownFirst(p, forecastHour)
      hidden == IF previousForecast # 0 /\ previousForecast # forecastHour
                   /\ previousForecast \in p.layers
                THEN [shown EXCEPT ![previousForecast] = 0]
                ELSE shown
  IN IF ~ready THEN p
     ELSE [p EXCEPT !.opacity = hidden,
                    !.activeForecastRef = forecastHour,
                    !.activeForecast = forecastHour]

\* a call by the caller is counted and named
Called(p, name) == [p EXCEPT !.calls = @ + 1, !.last = name]

\* initialize() called by the page
PreInitialize ==
  /\ pre.calls < MaxCalls
  /\ \E cached \in SUBSET ForecastHours :
       pre' = Called(initializeLayers(pre, cached), "initialize")
  /\ UNCHANGED <<pol, simVars, buf, page>>

\* cleanup(), called by the page when the layer is disabled, and on unmount
PreCleanup ==
  /\ pre.calls < MaxCalls
  /\ pre' = Called(PreCleanedUp(pre), "cleanup")
  /\ UNCHANGED <<pol, simVars, buf, page>>

\* reinitialize(): cleanup() now, initialize() 50 ms later
PreReinitialize ==
  /\ pre.calls < MaxCalls
  /\ pre' = Called([PreCleanedUp(pre) EXCEPT !.timers = @ + 1], "reinitialize")
  /\ UNCHANGED <<pol, simVars, buf, page>>

\* the timeout of reinitialize() runs initialize()
PreReinitTimeout ==
  /\ pre.timers > 0
  /\ \E cached \in SUBSET ForecastHours :
       pre' = [initializeLayers(pre, cached) EXCEPT !.timers = @ - 1]
  /\ UNCHANGED <<pol, simVars, buf, page>>

\* the enabled option changes with the page's toggle
PreSetEnabled ==
  /\ pre.calls < MaxCalls
  /\ pre' = Called([pre EXCEPT !.enabled = ~@], "enabled")
  /\ UNCHANGED <<pol, simVars, buf, page>>

\* setOpacity(opacity): the ref, and the paint of the active layer if there is one
PreSetOpacity ==
  /\ pre.calls < MaxCalls
  /\ \E o \in SetOpacities :
       /\ o # pre.opacityRef
       /\ pre' = Called([pre EXCEPT
                           !.opacityRef = o,
                           !.opacity = IF pre.activeForecastRef # 0
                                          /\ pre.activeForecastRef \in pre.layers
                                       THEN [@ EXCEPT ![pre.activeForecastRef] = o]
                                       ELSE @],
                        "setOpacity")
  /\ UNCHANGED <<pol, simVars, buf, page>>

\* setActiveForecast(forecastHour) called by the caller. The page calls it from
\* an effect that depends on isReady and on the callback, so the callback is the
\* one of the render that followed the last change of isReady.
PreSetActiveForecast ==
  /\ pre.calls < MaxCalls
  /\ \E hour \in ForecastHours :
       pre' = Called(setActiveForecast(pre, hour, pre.isReady), "setActiveForecast")
  /\ UNCHANGED <<pol, simVars, buf, page>>

\* the map fires sourcedata with isSourceLoaded for the source of an hour: the
\* onSourceData registered for it records the hour once and checks the count
PreSourceData ==
  /\ \E h \in pre.layers :
       /\ h \notin pre.reported
       /\ LET told == [pre EXCEPT !.reported = @ \cup {h}]
          IN pre' = IF h \in pre.listeners /\ h \notin pre.loadedSourcesRef
                    THEN checkAllLoaded([told EXCEPT !.loadedSourcesRef = @ \cup {h}])
                    ELSE told
  /\ UNCHANGED <<pol, simVars, buf, page>>

PreNext ==
  \/ PreInitialize \/ PreCleanup \/ PreReinitialize \/ PreReinitTimeout \/ PreSetEnabled
  \/ PreSetOpacity \/ PreSetActiveForecast \/ PreSourceData

SpecPreload == PolicyInit /\ [][PreNext]_vars

\* the hook with a buildTileUrl that returns null for some of the hours, or for
\* none; the host runs the timeout of reinitialize, and every source that was
\* created reports loaded
PreInitSomeUrls ==
  /\ pol = PolicyIdle
  /\ buf = DbHookInit
  /\ page = PageStart
  /\ variant = "skia"
  /\ cfg \in Configs
  /\ Unmounted
  /\ \E none \in SUBSET ForecastHours : pre = [PreHookInit EXCEPT !.noUrl = none]

PreFairness == WF_vars(PreReinitTimeout) /\ WF_vars(PreSourceData)

SpecPreloadLive == PreInitSomeUrls /\ [][PreNext]_vars /\ PreFairness

\* ------------------------------------- the page using the preloaded layers
\* the ids of the variables of the metadata; the first is selected automatically
WeatherVariables == {1, 2}

\* the hook's effect with the dependency [cleanup]: when forecastHours is a new
\* array, cleanup is a new callback and the cleanup of the previous one runs
hookCleanupEffect(p) == PreCleanedUp(p)

\* the page's effect "cleanup weather layers when disabled"
disabledEffect(p, g) == IF ~g.weatherLayerEnabled THEN PreCleanedUp(p) ELSE p

\* the page's effect "reinitialize layers when variable changes": reinitialize()
\* is cleanup() now and initialize() 50 ms later
variableEffect(p, g) ==
  IF g.weatherLayerEnabled /\ g.weatherMetadata /\ g.selectedVariableId # 0
  THEN [PreCleanedUp(p) EXCEPT !.timers = @ + 1]
  ELSE p

\* the page's effect "initialize weather layers when metadata becomes
\* available": the guard it was run under
MayInitialize(g) ==
  /\ g.weatherLayerEnabled
  /\ g.weatherMetadata
  /\ g.selectedVariableId # 0
  /\ ~g.weatherLayerInitializedRef

\* that effect's calls: initialize(), and the ref set
initializeEffect(p, g, cached) == IF MayInitialize(g) THEN initializeLayers(p, cached) ELSE p
initializedRefAfter(g) ==
  IF MayInitialize(g) THEN [g EXCEPT !.weatherLayerInitializedRef = TRUE] ELSE g

\* fetchMetadata() resolves, for the first time or on the 10 minute refresh, with
\* the same forecast hours: setMetadata(data), the first variable selected if
\* none is, and the effects of the renders that follow
PageMetadata ==
  /\ pre.calls < MaxCalls
  /\ \E cached \in SUBSET ForecastHours :
       LET first == page.selectedVariableId = 0
           g == [page EXCEPT !.weatherMetadata = TRUE,
                             !.selectedVariableId = IF first THEN 1 ELSE @]
           p1 == disabledEffect(hookCleanupEffect(pre), g)
           p2 == IF first THEN variableEffect(p1, g) ELSE p1
       IN /\ pre' = Called(initializeEffect(p2, g, cached), "metadata")
          /\ page' = initializedRefAfter(g)
  /\ UNCHANGED <<pol, simVars, buf>>

\* the user toggles the weather layer
PageToggleEnabled ==
  /\ pre.calls < MaxCalls
  /\ \E cached \in SUBSET ForecastHours :
       LET g == [page EXCEPT !.weatherLayerEnabled = ~@]
           p1 == disabledEffect([pre EXCEPT !.enabled = g.weatherLayerEnabled], g)
       IN /\ pre' = Called(initializeEffect(p1, g, cached), "enabled")
          /\ page' = initializedRefAfter(g)
  /\ UNCHANGED <<pol, simVars, buf>>

\* the user selects another variable
PageSelectVariable ==
  /\ pre.calls < MaxCalls
  /\ page.weatherMetadata
  /\ \E v \in WeatherVariables \ {page.selectedVariableId}, cached \in SUBSET ForecastHours :
       LET g == [page EXCEPT !.selectedVariableId = v]
           p1 == variableEffect(pre, g)
       IN /\ pre' = Called(initializeEffect(p1, g, cached), "variable")
          /\ page' = initializedRefAfter(g)
  /\ UNCHANGED <<pol, simVars, buf>>

\* the user moves the forecast slider: the page's effect calls setActiveForecast
\* when the layers are ready and enabled
PageSetForecast ==
  /\ pre.calls < MaxCalls
  /\ pre.isReady /\ page.weatherLayerEnabled
  /\ \E hour \in ForecastHours :
       pre' = Called(setActiveForecast(pre, hour, pre.isReady), "setActiveForecast")
  /\ UNCHANGED <<pol, simVars, buf, page>>

PageNext ==
  \/ PageMetadata \/ PageToggleEnabled \/ PageSelectVariable \/ PageSetForecast
  \/ PreSetOpacity \/ PreReinitTimeout \/ PreSourceData

SpecPage == PolicyInit /\ [][PageNext]_vars

\* the host runs the timeout of reinitialize, and a source that is loading
\* reports loaded
PageFairness == WF_vars(PreReinitTimeout) /\ WF_vars(PreSourceData)

SpecPageLive == PolicyInit /\ [][PageNext]_vars /\ PageFairness

\* ================================================================ claims
\* a step in which animate() executed a tick: the frame it requested afterwards
\* carries lastTime = currentTime, and nothing was rendered or (un)mounted
TickStep ==
  /\ mounted /\ mounted'
  /\ props' = props
  /\ \E g \in raf' : g.sinceLast = 0

\* every particle of ps lies in [0, width) x [0, height) of the field f
InRange(ps, f) ==
  \A i \in 1..Len(ps) :
    /\ 0 <= ps[i].x /\ ps[i].x < f.width * PX
    /\ 0 <= ps[i].y /\ ps[i].y < f.height * PX

\* C1: immediately after every step, for any zoom and any viewport bounds, every
\* particle's pixel position satisfies 0 <= x < width and 0 <= y < height.
C1_InRangeAfterStep ==
  [][TickStep => InRange(particles', FieldOf(props.windData))]_vars

\* C2 as stated: in a field whose validity byte is 0 at every pixel, after 100
\* consecutive steps every particle is at its position of initialization and has
\* a trail of exactly 1 point.
C2_Original ==
  steps = CoastSteps =>
    \A i \in 1..Len(particles) :
      /\ particles[i].x = origin[i].x
      /\ particles[i].y = origin[i].y
      /\ Len(particles[i].trail) = 1

\* C2 amended: in a field whose validity byte is 0 at every pixel, every step
\* leaves every particle's trail at exactly 1 point, and leaves its position as
\* it was unless the step resets the particle (its age, incremented by the step,
\* exceeds its maxAge, or its position is outside the grid).
C2_Coasting ==
  [][\A i \in 1..Len(particles) :
       /\ Len(particles'[i].trail) = 1
       /\ \/ (particles'[i].x = particles[i].x /\ particles'[i].y = particles[i].y)
          \/ NeedsReset(FieldOf(props.windData), [particles[i] EXCEPT !.age = @ + 1])]_vars

C2_Witness ==
  /\ steps = CoastSteps
  /\ Len(particles) > 0
  /\ \A i \in 1..Len(particles) : Len(particles[i].trail) = 1

\* C3: immediately after every step, every particle's trail has at most
\* getTrailLength(zoom, trailLength) points.
C3_TrailBounded ==
  [][TickStep =>
       \A i \in 1..Len(particles') :
         Len(particles'[i].trail) <= getTrailLength(props.zoom, cfg.trailLength)]_vars

\* the component is stopped: disabled, or unmounted
Stopped == ~mounted \/ ~props.enabled

\* C4: once the component is stopped (disabled or unmounted, once or twice in a
\* row, or before any start) no frame callback is left pending and no trail is
\* on screen, and while it stays stopped the particles do not change.
C4_StopFinal ==
  /\ [](Stopped => (raf = {} /\ paths = <<>>))
  /\ [][(mounted /\ mounted' /\ ~props.enabled /\ ~props'.enabled)
          => particles' = particles]_vars

\* a loop had been requested and advected particles, and the component is disabled
C4_Witness ==
  /\ mounted
  /\ ~props.enabled
  /\ animationFrameRef # 0
  /\ raf = {}
  /\ \E i \in 1..Len(particles) : Len(particles[i].trail) > 1

\* a start after a stop, the props otherwise as they were: enabled becomes true
\* with wind data and a view at hand
RestartStep ==
  /\ mounted /\ mounted'
  /\ ~props.enabled /\ props'.enabled
  /\ props'.windData = props.windData /\ props.windData # 0
  /\ props'.view = props.view /\ props.view.set
  /\ props'.zoom = props.zoom

\* C5 as stated: a stop followed by a start resumes from the existing particle
\* state; the population right after the restart is the one left by the stop.
C5_Original == [][(RestartStep /\ particles # <<>>) => particles' = particles]_vars

\* C5 amended: a stop followed by a start initializes the population anew: right
\* after the restart there are getParticleCount(zoom) particles, each with an age
\* below maxAge and a trail of exactly one point.
C5_Reinitialized ==
  [][RestartStep =>
       /\ Len(particles') = getParticleCount(props.zoom, cfg.baseParticleCount)
       /\ seedField' = props.windData
       /\ \A i \in 1..Len(particles') :
            /\ Len(particles'[i].trail) = 1
            /\ 0 <= particles'[i].age /\ particles'[i].age < cfg.maxAge]_vars

\* stopped with advected particle state at hand, a restart being possible
C5_Witness ==
  /\ mounted
  /\ ~props.enabled
  /\ props.windData # 0
  /\ props.view.set
  /\ getParticleCount(props.zoom, cfg.baseParticleCount) > 0
  /\ \E i \in 1..Len(particles) : Len(particles[i].trail) > 1

\* C6: every pending frame callback steps against the field the population was
\* last initialized against: after windData is replaced, initParticles runs
\* before any step with the new field.
C6_InitBeforeStep == \A f \in raf : f.fid = seedField

\* trails advected in field 1 are still on screen while the loop runs on field 2
C6_Witness ==
  /\ seedField = 2
  /\ \E f \in raf : f.fid = 2
  /\ paths # <<>>

\* C7: while the loop stays running, through every sequence of frame signals and
\* prop, zoom and viewport changes, an executed tick comes at least
\* 1000 / targetFPS milliseconds after the previous executed tick.
C7_Throttled ==
  [][TickStep => Due(Min(sinceTick + FrameDt, TimeCap))]_vars

\* C11 as stated: in a step in which a particle's sample is invalid, its
\* position after the step is its position before the step and no point is
\* added to its trail.
C11_Original ==
  [][TickStep =>
       \A i \in 1..Len(particles) :
         ~ValidSample(FieldOf(props.windData), particles[i]) =>
           /\ particles'[i].x = particles[i].x
           /\ particles'[i].y = particles[i].y
           /\ Len(particles'[i].trail) <= Len(particles[i].trail)]_vars

\* C11 amended: in a step in which a particle's sample is invalid, no point is
\* added to its trail, and its position after the step is its position before
\* the step unless the step respawns it (its incremented age exceeds its maxAge
\* or its position is outside the grid); without a respawn the trail is as it was.
C11_Coasts ==
  [][TickStep =>
       \A i \in 1..Len(particles) :
         ~ValidSample(FieldOf(props.windData), particles[i]) =>
           /\ Len(particles'[i].trail) <= Len(particles[i].trail)
           /\ \/ NeedsReset(FieldOf(props.windData), [particles[i] EXCEPT !.age = @ + 1])
              \/ /\ particles'[i].x = particles[i].x
                 /\ particles'[i].y = particles[i].y
                 /\ particles'[i].trail = particles[i].trail]_vars

\* a particle spawned on the hole of field 1 that a tick has aged where it is
C11_Witness ==
  /\ mounted
  /\ props.windData = 1
  /\ sinceTick = 0
  /\ \E i \in 1..Len(particles) :
       /\ InGrid(FieldOf(1), particles[i].x, particles[i].y)
       /\ ~ValidSample(FieldOf(1), particles[i])
       /\ particles[i].age = 1
       /\ Len(particles[i].trail) = 1

\* particle i as the step has it after the advection and the age increment
AgedInStep(i) ==
  LET f == FieldOf(props.windData)
      moved == Advect(variant, f, particles[i],
                      getSpeedFactor(variant, props.zoom, cfg.speedFactor),
                      getTrailLength(props.zoom, cfg.trailLength))
  IN [moved EXCEPT !.age = @ + 1]

\* the point lies inside the bounds
InBounds(sb, pt) ==
  /\ sb.west <= pt.lng /\ pt.lng <= sb.east
  /\ sb.south <= pt.lat /\ pt.lat <= sb.north

\* C12: in a step a particle is respawned (ends the step with age 0) if and only
\* if, after advection and the age increment, its age exceeds its maxAge or its
\* position is outside the grid; a respawned particle keeps its slot and has a
\* maxAge within 15 ticks of the configured one, a position inside the spawn
\* bounds, and a trail of exactly one point, the geographic image of the position.
C12_Respawn ==
  [][TickStep =>
       /\ Len(particles') = Len(particles)
       /\ \A i \in 1..Len(particles) :
            LET f == FieldOf(props.windData)
                q == particles'[i]
            IN /\ (q.age = 0) <=> NeedsReset(f, AgedInStep(i))
               /\ (q.age = 0) =>
                    /\ q.maxAge >= cfg.maxAge - 15 /\ q.maxAge <= cfg.maxAge + 15
                    /\ Len(q.trail) = 1
                    /\ InBounds(SpawnBounds(variant, f, props.view, props.zoom), q.trail[1])
                    /\ q.x = LngToX(f, q.trail[1].lng)
                    /\ q.y = LatToY(f, q.trail[1].lat)]_vars

\* C13: between ticks, right after initParticles and right after every step,
\* every particle is Alive: its age is strictly less than its maxAge and its
\* position is inside the grid of the field it was initialized against.
C13_Alive ==
  (mounted /\ seedField # 0) =>
    /\ InRange(particles, FieldOf(seedField))
    /\ \A i \in 1..Len(particles) : particles[i].age < particles[i].maxAge

\* C14: with a field whose width is zero a step is a no-op: every particle's
\* position, age, maxAge and trail are after the step what they were before.
C14_NoOp == [][props.windData = 3 => particles' = particles]_vars

\* the thresholds 0, 5, 10, ... of the colour scale are RampStep m/s apart
RampStep == 5

\* C15: the colour of a magnitude is the entry of the largest threshold of
\* 0, 5, ..., 45 m/s that is at most the magnitude, a magnitude at or above the
\* clamp getting the entry of the largest threshold not above the clamp; the
\* index is within the table.
C15_Ramp ==
  pol.fn = "color" =>
    /\ pol.index >= 0 /\ pol.index < ColorScaleLen
    /\ pol.index = Min(pol.magnitude, MaxSpeed * MagDen) \div (RampStep * MagDen)

C17_Decode ==
  pol.fn = "decode" =>
    /\ pol.b1 < pol.b2 => pol.d1 < pol.d2
    /\ pol.b1 = 0 => pol.d1 = 255 * pol.min
    /\ pol.b1 = 255 => pol.d1 = 255 * pol.max
    /\ (pol.min = -50 /\ pol.max = 50) =>
         /\ pol.inline1 = (pol.d1 * VelScale) \div 255
         /\ pol.b1 = 128 => pol.d1 = 50

C17_Witness ==
  /\ pol.fn = "decode"
  /\ pol.min = -50 /\ pol.max = 50
  /\ pol.b1 = 0 /\ pol.d1 = -50 * 255
  /\ pol.b2 = 128 /\ pol.d2 = 50
  /\ pol.inline1 = -50 * VelScale

\* C18: the geographic-to-pixel mapping and the pixel-to-geographic mapping used
\* when advecting are inverses: for any (lng, lat) within the field bounds,
\* converting to pixel space and back reproduces (lng, lat).
C18_RoundTrip ==
  pol.fn = "geo" =>
    /\ pol.back.lngd # 0 /\ pol.back.latd # 0
    /\ pol.back.lngn = pol.lng * pol.back.lngd
    /\ pol.back.latn = pol.lat * pol.back.latd

C18_Witness ==
  /\ pol.fn = "geo"
  /\ pol.fid = 1
  /\ pol.lng # FieldOf(1).west /\ pol.lng # FieldOf(1).east
  /\ pol.lat # FieldOf(1).south /\ pol.lat # FieldOf(1).north
  /\ 2 * pol.lat # FieldOf(1).south + FieldOf(1).north
  /\ pol.back.lngn = pol.lng * pol.back.lngd
  /\ pol.back.latn = pol.lat * pol.back.latd

\* C19: in the double-buffered raster layer, the layer that receives new tiles
\* stays at opacity 0 from the moment transitionToTiles assigns the tiles until
\* its source has reported fully loaded, and no crossfade towards it runs before
\* that: a layer whose tiles are not loaded is never shown.
C19_HiddenUntilLoaded ==
  \A l \in Layers :
    buf.waiting[l] =>
      /\ buf.opacity[l] = 0
      /\ \A f \in buf.fades : f.to # l

VisibleIn(o) == {h \in ForecastHours : o[h] > 0}

\* a step in which the caller called setActiveForecast
SetActiveStep == pre'.calls # pre.calls /\ pre'.last = "setActiveForecast"

C22_Completes ==
  buf.isTransitioning ~> (~buf.isTransitioning \/ ~buf.isInitializedRef)

\* a step in which the caller called transitionToTiles on the initialized hook
TransitionStep ==
  /\ buf'.calls = buf.calls + 1
  /\ buf.isInitializedRef /\ buf'.isInitializedRef
  /\ buf'.opacityRef = buf.opacityRef

\* C23: at most one crossfade is in progress at any time, and a call of
\* transitionToTiles that arrives while a transition is in progress is queued:
\* it sets no tiles and starts no crossfade.
C23_OneCrossfade ==
  /\ [](Cardinality(buf.fades) <= 1)
  /\ [][(TransitionStep /\ buf.isTransitioning) =>
          /\ buf'.currentTilesRef = buf.currentTilesRef
          /\ buf'.fades = buf.fades
          /\ buf'.listeners = buf.listeners]_vars

\* nothing of the double-buffered layer is pending: both sources loaded, no
\* crossfade, listener or timeout left, no transition in progress or queued
Quiet ==
  /\ buf.isInitializedRef
  /\ buf.loaded["A"] /\ buf.loaded["B"]
  /\ buf.fades = {} /\ buf.listeners = {} /\ buf.timers = {}
  /\ ~buf.isTransitioning /\ buf.pendingTransitionRef = 0

\* a step in which a crossfade ran its last frame
CompletionStep ==
  /\ buf'.calls = buf.calls
  /\ Cardinality(buf'.fades) < Cardinality(buf.fades)

\* C24: once all sources have loaded and all crossfades have finished, the
\* active layer shows the tile URL of the most recent call and the other layer
\* has opacity 0; each completed transition changes the active layer.
C24_ShowsLatest ==
  /\ [](Quiet =>
          /\ buf.currentTilesRef[buf.activeLayerRef] = buf.requested
          /\ buf.opacity[OtherLayer(buf.activeLayerRef)] = 0)
  /\ [][CompletionStep => buf'.activeLayerRef = OtherLayer(buf.activeLayerRef)]_vars

\* C25: once the preloaded layers are ready they stay ready and on the map for
\* as long as the layer remains enabled and the selected variable is unchanged;
\* a metadata refresh with the same forecast hours removes nothing.
C25_StaysReady ==
  [][(/\ pre.isReady
      /\ page.weatherLayerEnabled /\ page'.weatherLayerEnabled
      /\ page'.selectedVariableId = page.selectedVariableId)
     => (pre'.isReady /\ pre'.layers = pre.layers)]_vars

\* C26: after the weather layer has been enabled by the toggle, with metadata
\* available, the preloaded layers eventually become ready, unless the user or
\* a metadata refresh intervenes first.
C26_ReadyAgain ==
  (page.weatherLayerEnabled /\ page.weatherMetadata /\ pre.last = "enabled")
     ~> (pre.isReady \/ pre.last # "enabled")

\* C27: after initialize, every created source reporting loaded, isReady
\* eventually becomes true with the first forecast hour visible, unless the
\* layers are cleaned up first; loadedCount never exceeds totalCount.
C27_BecomesReady ==
  /\ [](pre.loadedCount <= pre.totalCount)
  /\ pre.isInitializedRef ~>
       \/ ~pre.isInitializedRef
       \/ pre.isReady /\ pre.activeForecastRef # 0 /\ pre.opacity[pre.activeForecastRef] > 0

\* a render of DeckWindParticleLayer after updateView reported a pan or a zoom
\* inside the same zoom bucket, the layer staying enabled with the same field
SameBucketMove ==
  /\ variant = "deck"
  /\ mounted /\ mounted'
  /\ props.enabled /\ props'.enabled
  /\ props.windData # 0 /\ props'.windData = props.windData
  /\ props.view.set
  /\ props' # props
  /\ ZoomBucket(props'.zoom) = ZoomBucket(props.zoom)

\* C28: while the layer stays enabled with the same field, a pan or a zoom
\* change inside the same zoom bucket (floor(zoom) above 6, one bucket below)
\* leaves every particle's position, age and trail as they were.
C28_KeptInBucket == [][SameBucketMove => particles' = particles]_vars

\* The bucket of the documented step table a zoom level falls in, the
\* thresholds 4, 6, 8, 10, 12 being half-open [lo, hi).
Bucket(z) ==
  IF z < 4 * ZoomDen THEN 0
  ELSE IF z < 6 * ZoomDen THEN 1
  ELSE IF z < 8 * ZoomDen THEN 2
  ELSE IF z < 10 * ZoomDen THEN 3
  ELSE IF z < 12 * ZoomDen THEN 4
  ELSE 5

\* the documented multipliers, in 1/1000
CountPerMille == <<1000, 500, 200, 80, 40, 25>>
TrailPerMille == <<1000, 800, 600, 400, 250>>
SpeedLoPerMille == <<1000, 750, 375, 150, 60, 20>>
SpeedHiPerMille == <<1000, 750, 500, 190, 80, 25>>
\* the same with the lower end of [4,6) at 0.70
SpeedLoAmended == <<1000, 700, 375, 150, 60, 20>>

TableHolds(speedLo) ==
  LET b == Bucket(pol.z1) + 1 IN
  /\ pol.fn = "count" =>
       pol.count1 = (pol.baseCount * CountPerMille[b]) \div 1000
  /\ pol.fn = "speed" =>
       /\ speedLo[b] * pol.baseSpeed <= 1000 * pol.speed1
       /\ 1000 * pol.speed1 <= SpeedHiPerMille[b] * pol.baseSpeed
  /\ (pol.fn = "trail" /\ b <= 5) =>
       pol.trail1 = (pol.baseTrail * TrailPerMille[b]) \div 1000

\* C9 as stated: the step table with half-open buckets, the speed factor being
\* base x 0.75 in [4,6).  DeckWindParticleLayer uses base x 0.7 there.
C9_Original == TableHolds(SpeedLoPerMille)

\* C9 amended: the step table with half-open buckets; the speed factor is
\* base x 1.00 below zoom 4, between x 0.70 and x 0.75 in [4,6), between x 0.375
\* and x 0.50 in [6,8), between x 0.15 and x 0.19 in [8,10), between x 0.06 and
\* x 0.08 in [10,12) and between x 0.02 and x 0.025 from zoom 12 on.
C9_Table == TableHolds(SpeedLoAmended)

C9_Witness ==
  /\ pol.fn = "speed"
  /\ pol.variant = "deck"
  /\ pol.z1 = 4 * ZoomDen
  /\ pol.baseSpeed = SkiaSpeedBase
  /\ pol.speed1 = 560

\* C10: for every zoom level and every base trail length the effective trail
\* length is at least 2.
C10_TrailAtLeastTwo == pol.fn = "trail" => pol.trail1 >= 2

====
